---- MODULE Spec2Model ----
(***************************************************************************)
(* The step sequencer of ProcessModal (src/components/dashboard/           *)
(* ProcessModal.tsx): a React component whose state (currentStep,          *)
(* isComplete) is driven by one effect that schedules a timer per step.    *)
(*                                                                         *)
(* React's part is modelled as follows.  An event (a change of the props   *)
(* by the parent, a call of handleClose, a timer callback) updates the     *)
(* state and is followed by one render, which is committed in the same     *)
(* step.  The effect of a committed render is a step of its own: it runs   *)
(* when one of its dependencies differs from the previous render's, it     *)
(* first runs the cleanup registered by the previous run, and its own      *)
(* state updates are committed by the render that follows it.  React runs  *)
(* the effects of a commit before it starts another update, so no event    *)
(* is taken while an effect is pending.                                    *)
(***************************************************************************)
EXTENDS Integers, Sequences, FiniteSets

VARIABLES
    isOpen,        \* prop isOpen as of the last render
    processType,   \* prop processType as of the last render
    currentStep,   \* useState(0)
    isComplete,    \* useState(false)
    timers,        \* the setTimeout timers that are pending
    cleanupTimer,  \* the timers the registered effect cleanup will clear
    effectPending, \* the last commit changed a dependency of the effect
    onCloseCalls,  \* how often the last event invoked the prop onClose
    lastEvent,     \* the event that produced this state
    fired,         \* timers fired since the modal was opened or handleClose ran
    firedSinceOpen,\* timers fired since the modal was opened (counted up to MaxFired)
    closedAfter,   \* value of fired when the modal was last closed (-1: never closed)
    cancelled,     \* the pending timers the last event cleared (clearTimeout)
    scheduled,     \* the timers the last event scheduled (setTimeout)
    openChange     \* the value the drawer notified in the last event ("none": no notification)

vars == << isOpen, processType, currentStep, isComplete, timers, cleanupTimer,
           effectPending, onCloseCalls, lastEvent, fired, firedSinceOpen, closedAfter,
           cancelled, scheduled, openChange >>

\* firedSinceOpen stops counting here
MaxFired == 7

ProcessType == {"screenshots", "recordings", "cleanup"}

processConfigs ==
    [ screenshots |->
        [ title |-> "Organizando Capturas",
          steps |-> << [label |-> "Escaneando capturas de tela", duration |-> 1500],
                       [label |-> "Identificando aplicativos", duration |-> 1200],
                       [label |-> "Criando pastas por app", duration |-> 1000],
                       [label |-> "Movendo arquivos", duration |-> 1800],
                       [label |-> "Finalizando organização", duration |-> 800] >> ],
      recordings |->
        [ title |-> "Organizando Gravações",
          steps |-> << [label |-> "Escaneando gravações", duration |-> 1500],
                       [label |-> "Analisando metadados", duration |-> 1300],
                       [label |-> "Categorizando por data", duration |-> 1100],
                       [label |-> "Organizando em pastas", duration |-> 1600],
                       [label |-> "Concluindo processo", duration |-> 900] >> ],
      cleanup |->
        [ title |-> "Limpeza Inteligente",
          steps |-> << [label |-> "Identificando duplicados", duration |-> 1400],
                       [label |-> "Localizando arquivos antigos", duration |-> 1200],
                       [label |-> "Analisando espaço ocupado", duration |-> 1000],
                       [label |-> "Removendo desnecessários", duration |-> 1700],
                       [label |-> "Liberando espaço", duration |-> 1100] >> ] ]

resultStats ==
    [ screenshots |-> [value |-> "234", label |-> "capturas organizadas"],
      recordings  |-> [value |-> "18", label |-> "gravações organizadas"],
      cleanup     |-> [value |-> "1.2 GB", label |-> "de espaço liberado"] ]

\* const config = processConfigs[processType]
config(p) == processConfigs[p]

\* const totalSteps = config.steps.length
totalSteps(p) == Len(config(p).steps)

\* stats that always reads the screenshots entry
stats_Screenshots(p) == resultStats["screenshots"]

\* const stats = resultStats[processType]
stats(p) == resultStats[p]

\* StepDuration that always uses the fallback delay
StepDuration_Default(p, step) == 1000

\* the delay used when a step has no duration
DefaultDuration == 1000

\* config.steps[currentStep]?.duration || 1000   (steps are indexed from 0)
StepDuration(p, step) ==
    IF step >= 0 /\ step < totalSteps(p) /\ config(p).steps[step + 1].duration # 0
    THEN config(p).steps[step + 1].duration
    ELSE DefaultDuration

\* Progress counting the running step as done
Progress_OffByOne(complete, step, p) ==
    IF complete THEN 100 ELSE ((step + 1) * 100) \div totalSteps(p)

\* const progress = isComplete ? 100 : (currentStep / totalSteps) * 100
\* (for the step counts of processConfigs the quotient is exact)
Progress(complete, step, p) ==
    IF complete THEN 100 ELSE (step * 100) \div totalSteps(p)

progress == Progress(isComplete, currentStep, processType)

\* {isComplete && ...}: the completion panel shows stats.value and stats.label
CompletePanel(complete, p) ==
    IF complete THEN << stats(p).value, stats(p).label >> ELSE << >>

\* StepPanel numbering the steps from 0
StepPanel_ZeroBased(complete, step, p) ==
    IF ~complete /\ step < totalSteps(p)
    THEN << config(p).steps[step + 1].label, "Etapa", step, "de", totalSteps(p) >>
    ELSE << >>

\* {!isComplete && currentStep < totalSteps && ...}: the current-step panel
\* shows config.steps[currentStep].label and
\* "Etapa {currentStep + 1} de {totalSteps}"
StepPanel(complete, step, p) ==
    IF ~complete /\ step < totalSteps(p)
    THEN << config(p).steps[step + 1].label, "Etapa", step + 1, "de", totalSteps(p) >>
    ELSE << >>

\* {isComplete ? <Button>Concluído</Button> : <Button>Cancelar</Button>}
FooterButton(complete) == IF complete THEN "Concluído" ELSE "Cancelar"

\* DepsChanged for a dependency list without currentStep
DepsChanged_NoStep(open1, step1, p1, open2, step2, p2) ==
    \/ open1 # open2
    \/ totalSteps(p1) # totalSteps(p2)
    \/ p1 # p2

\* the dependency list [isOpen, currentStep, totalSteps, config.steps]:
\* config.steps is another array exactly when processType is another type
DepsChanged(open1, step1, p1, open2, step2, p2) ==
    \/ open1 # open2
    \/ step1 # step2
    \/ totalSteps(p1) # totalSteps(p2)
    \/ p1 # p2

Init ==
    /\ isOpen \in BOOLEAN
    /\ processType \in ProcessType
    /\ currentStep = 0
    /\ isComplete = FALSE
    /\ timers = {}
    /\ cleanupTimer = {}
    /\ effectPending = TRUE
    /\ onCloseCalls = 0
    /\ lastEvent = "mount"
    /\ fired = 0
    /\ firedSinceOpen = 0
    /\ closedAfter = -1
    /\ cancelled = {}
    /\ scheduled = {}
    /\ openChange = "none"

\* the parent renders the component with isOpen = true
Open ==
    /\ ~effectPending
    /\ ~isOpen
    /\ isOpen' = TRUE
    /\ effectPending' = DepsChanged(isOpen, currentStep, processType,
                                    TRUE, currentStep, processType)
    /\ onCloseCalls' = 0
    /\ cancelled' = {}
    /\ scheduled' = {}
    /\ openChange' = "none"
    /\ lastEvent' = "open"
    /\ fired' = 0
    /\ firedSinceOpen' = 0
    /\ UNCHANGED << processType, currentStep, isComplete, timers, cleanupTimer, closedAfter >>

\* the parent renders the component with isOpen = false
Close ==
    /\ ~effectPending
    /\ isOpen
    /\ isOpen' = FALSE
    /\ effectPending' = DepsChanged(isOpen, currentStep, processType,
                                    FALSE, currentStep, processType)
    /\ onCloseCalls' = 0
    /\ cancelled' = {}
    /\ scheduled' = {}
    /\ openChange' = "none"
    /\ lastEvent' = "close"
    /\ closedAfter' = fired
    /\ UNCHANGED << processType, currentStep, isComplete, timers, cleanupTimer,
                    fired, firedSinceOpen >>

\* ChangeProcessType restarting the sequence
ChangeProcessType_Restart(p) ==
    /\ ~effectPending
    /\ p # processType
    /\ processType' = p
    /\ currentStep' = 0
    /\ effectPending' = TRUE
    /\ onCloseCalls' = 0
    /\ cancelled' = {}
    /\ scheduled' = {}
    /\ openChange' = "none"
    /\ lastEvent' = "processType"
    /\ UNCHANGED << isOpen, isComplete, timers, cleanupTimer,
                    fired, firedSinceOpen, closedAfter >>

\* the parent renders the component with another processType
ChangeProcessType(p) ==
    /\ ~effectPending
    /\ p # processType
    /\ processType' = p
    /\ effectPending' = DepsChanged(isOpen, currentStep, processType,
                                    isOpen, currentStep, p)
    /\ onCloseCalls' = 0
    /\ cancelled' = {}
    /\ scheduled' = {}
    /\ openChange' = "none"
    /\ lastEvent' = "processType"
    /\ UNCHANGED << isOpen, currentStep, isComplete, timers, cleanupTimer,
                    fired, firedSinceOpen, closedAfter >>

\* handleClose without setCurrentStep(0)
handleClose_KeepStep(callerCloses) ==
    /\ ~effectPending
    /\ isComplete' = FALSE
    /\ onCloseCalls' = 1
    /\ cancelled' = {}
    /\ scheduled' = {}
    /\ isOpen' = IF callerCloses THEN FALSE ELSE isOpen
    /\ effectPending' = DepsChanged(isOpen, currentStep, processType,
                                    isOpen', currentStep, processType)
    /\ lastEvent' = "handleClose"
    /\ fired' = 0
    /\ closedAfter' = IF isOpen /\ callerCloses THEN fired ELSE closedAfter
    /\ UNCHANGED << processType, currentStep, timers, cleanupTimer, firedSinceOpen >>

\* handleClose without setIsComplete(false)
handleClose_KeepComplete(callerCloses) ==
    /\ ~effectPending
    /\ currentStep' = 0
    /\ onCloseCalls' = 1
    /\ cancelled' = {}
    /\ scheduled' = {}
    /\ isOpen' = IF callerCloses THEN FALSE ELSE isOpen
    /\ effectPending' = DepsChanged(isOpen, currentStep, processType,
                                    isOpen', 0, processType)
    /\ lastEvent' = "handleClose"
    /\ fired' = 0
    /\ closedAfter' = IF isOpen /\ callerCloses THEN fired ELSE closedAfter
    /\ UNCHANGED << processType, isComplete, timers, cleanupTimer, firedSinceOpen >>

\* handleClose: setCurrentStep(0); setIsComplete(false); onClose().
\* What onClose does is the caller's choice: callerCloses says whether the
\* caller renders the component with isOpen = false in response.
handleClose(callerCloses) ==
    /\ ~effectPending
    /\ currentStep' = 0
    /\ isComplete' = FALSE
    /\ onCloseCalls' = 1
    /\ cancelled' = {}
    /\ scheduled' = {}
    /\ isOpen' = IF callerCloses THEN FALSE ELSE isOpen
    /\ effectPending' = DepsChanged(isOpen, currentStep, processType,
                                    isOpen', 0, processType)
    /\ lastEvent' = "handleClose"
    /\ fired' = 0
    /\ closedAfter' = IF isOpen /\ callerCloses THEN fired ELSE closedAfter
    /\ UNCHANGED << processType, timers, cleanupTimer, firedSinceOpen >>

\* the footer buttons "Concluído" and "Cancelar": onClick={handleClose}
ButtonClick(callerCloses) ==
    /\ handleClose(callerCloses)
    /\ openChange' = "none"

\* onOpenChange that runs handleClose only when the drawer reports closing
onOpenChange_OnlyOnClose(open, callerCloses) ==
    IF open
    THEN /\ ~effectPending
         /\ onCloseCalls' = 0
         /\ cancelled' = {}
         /\ scheduled' = {}
         /\ lastEvent' = "openChange"
         /\ openChange' = "true"
         /\ UNCHANGED << isOpen, processType, currentStep, isComplete, timers,
                         cleanupTimer, effectPending, fired, firedSinceOpen, closedAfter >>
    ELSE /\ handleClose(callerCloses)
         /\ openChange' = "false"

\* <Drawer open={isOpen} onOpenChange={handleClose}>: the drawer notifies a
\* change of its open state; handleClose takes no parameter, so the notified
\* value is dropped
onOpenChange(open, callerCloses) ==
    /\ handleClose(callerCloses)
    /\ openChange' = IF open THEN "true" ELSE "false"

\* Increment with a step of two
Increment_Two(prev) == prev + 2

\* the updater (prev) => prev + 1
Increment(prev) == prev + 1

\* the setTimeout callback: setCurrentStep((prev) => prev + 1)
TimerFire(t) ==
    /\ ~effectPending
    /\ t \in timers
    /\ timers' = timers \ {t}
    /\ currentStep' = Increment(currentStep)
    /\ effectPending' = DepsChanged(isOpen, currentStep, processType,
                                    isOpen, currentStep', processType)
    /\ onCloseCalls' = 0
    /\ cancelled' = {}
    /\ scheduled' = {}
    /\ openChange' = "none"
    /\ lastEvent' = "timer"
    /\ fired' = fired + 1
    /\ firedSinceOpen' = IF firedSinceOpen < MaxFired THEN firedSinceOpen + 1
                                                      ELSE firedSinceOpen
    /\ UNCHANGED << isOpen, processType, isComplete, cleanupTimer, closedAfter >>

\* EffectState completing one step early
EffectState_Early(open, step, complete, p) ==
    IF ~open THEN << 0, FALSE >>
    ELSE IF step + 1 >= totalSteps(p) THEN << step, TRUE >>
    ELSE << step, complete >>

\* EffectState completing only past the last step
EffectState_Late(open, step, complete, p) ==
    IF ~open THEN << 0, FALSE >>
    ELSE IF step > totalSteps(p) THEN << step, TRUE >>
    ELSE << step, complete >>

\* EffectState whose reset branch leaves currentStep alone
EffectState_KeepStep(open, step, complete, p) ==
    IF ~open THEN << step, FALSE >>
    ELSE IF step >= totalSteps(p) THEN << step, TRUE >>
    ELSE << step, complete >>

\* the state the effect body sets: << currentStep, isComplete >>
EffectState(open, step, complete, p) ==
    IF ~open THEN << 0, FALSE >>
    ELSE IF step >= totalSteps(p) THEN << step, TRUE >>
    ELSE << step, complete >>

\* EffectTimer without the return of the completion branch
EffectTimer_NoReturn(open, step, p) ==
    IF open
    THEN { [step |-> step, delay |-> StepDuration(p, step)] }
    ELSE {}

\* EffectTimer that schedules no timer for the last step
EffectTimer_OffByOne(open, step, p) ==
    IF open /\ step + 1 < totalSteps(p)
    THEN { [step |-> step, delay |-> StepDuration(p, step)] }
    ELSE {}

\* the timers the effect body schedules
EffectTimer(open, step, p) ==
    IF open /\ step < totalSteps(p)
    THEN { [step |-> step, delay |-> StepDuration(p, step)] }
    ELSE {}

\* EffectCleanup that clears nothing
EffectCleanup_None(pending, registered) == pending

\* return () => clearTimeout(timer), run before the next run of the effect
EffectCleanup(pending, registered) == pending \ registered

\* Effect that dismisses the modal when the sequence completes
Effect_AutoClose ==
    /\ effectPending
    /\ LET st == EffectState(isOpen, currentStep, isComplete, processType)
           new == EffectTimer(isOpen, currentStep, processType)
       IN /\ currentStep' = st[1]
          /\ isComplete' = st[2]
          /\ timers' = EffectCleanup(timers, cleanupTimer) \cup new
          /\ cleanupTimer' = new
          /\ cancelled' = timers \ EffectCleanup(timers, cleanupTimer)
          /\ scheduled' = new
          /\ effectPending' = DepsChanged(isOpen, currentStep, processType,
                                          isOpen, st[1], processType)
          /\ onCloseCalls' = IF st[2] /\ ~isComplete THEN 1 ELSE 0
    /\ openChange' = "none"
    /\ lastEvent' = "effect"
    /\ UNCHANGED << isOpen, processType, fired, firedSinceOpen, closedAfter >>

\* the useEffect of the component: the cleanup of the previous run, then the body
Effect ==
    /\ effectPending
    /\ LET st == EffectState(isOpen, currentStep, isComplete, processType)
           new == EffectTimer(isOpen, currentStep, processType)
       IN /\ currentStep' = st[1]
          /\ isComplete' = st[2]
          /\ timers' = EffectCleanup(timers, cleanupTimer) \cup new
          /\ cleanupTimer' = new
          /\ cancelled' = timers \ EffectCleanup(timers, cleanupTimer)
          /\ scheduled' = new
          /\ effectPending' = DepsChanged(isOpen, currentStep, processType,
                                          isOpen, st[1], processType)
    /\ onCloseCalls' = 0
    /\ openChange' = "none"
    /\ lastEvent' = "effect"
    /\ UNCHANGED << isOpen, processType, fired, firedSinceOpen, closedAfter >>

Next ==
    \/ Open
    \/ Close
    \/ \E p \in ProcessType : ChangeProcessType(p)
    \/ \E callerCloses \in BOOLEAN : ButtonClick(callerCloses)
    \/ \E open \in BOOLEAN, callerCloses \in BOOLEAN : onOpenChange(open, callerCloses)
    \/ \E t \in timers : TimerFire(t)
    \/ Effect

Spec == Init /\ [][Next]_vars

\* the timers fire and the effects run
FairSpec == Spec /\ WF_vars(\E t \in timers : TimerFire(t)) /\ WF_vars(Effect)

TypeOK ==
    /\ isOpen \in BOOLEAN
    /\ processType \in ProcessType
    /\ currentStep \in Nat
    /\ isComplete \in BOOLEAN
    /\ effectPending \in BOOLEAN
    /\ onCloseCalls \in 0..1
    /\ fired \in Nat
    /\ firedSinceOpen \in 0..MaxFired
    /\ Cardinality(cancelled) <= 1
    /\ Cardinality(scheduled) <= 1
    /\ openChange \in {"none", "true", "false"}
    /\ closedAfter \in Int

(***************************************************************************)
(* Properties                                                              *)
(***************************************************************************)

\* a timer fired in this step
TimerFired == fired' = fired + 1

\* the effect of the last render has run
Settled == ~effectPending

\* C1 as stated: in every reachable state isComplete is true if and only if
\* currentStep >= totalSteps.
C1_Original == isComplete <=> (currentStep >= totalSteps(processType))

\* C1 amended: isComplete implies currentStep >= totalSteps in every state,
\* and currentStep >= totalSteps implies isComplete in every state in which
\* the effect of the last render has run.
C1_CompleteIffAllSteps ==
    /\ isComplete => currentStep >= totalSteps(processType)
    /\ Settled => (isComplete <=> (currentStep >= totalSteps(processType)))

C1_Witness ==
    /\ isOpen /\ Settled /\ isComplete
    /\ currentStep = totalSteps(processType)

\* C2: every fired timer increases currentStep by exactly 1, and in every
\* reachable state 0 <= currentStep <= steps.length of the current processType.
C2_StepByOne ==
    /\ [](currentStep \in 0..totalSteps(processType))
    /\ [][TimerFired => currentStep' = currentStep + 1]_vars

C2_Witness ==
    /\ lastEvent = "timer" /\ fired = totalSteps(processType)
    /\ currentStep = totalSteps(processType)

C4_Original ==
    /\ [][(~isComplete /\ isComplete') => currentStep' = totalSteps(processType')]_vars
    /\ [][(isComplete /\ isOpen /\ isOpen') => isComplete']_vars

\* C4 amended: isComplete becomes true exactly when currentStep equals
\* steps.length, and once true it stays true until the modal closes or
\* handleClose runs; no other event while the modal is open makes it false.
C4_CompleteUntilClose ==
    /\ [][(~isComplete /\ isComplete') => currentStep' = totalSteps(processType')]_vars
    /\ [][(isComplete /\ isOpen /\ isOpen' /\ lastEvent' # "handleClose")
            => isComplete']_vars

C4_Witness ==
    /\ isOpen /\ isComplete /\ lastEvent = "processType"
    /\ currentStep = totalSteps(processType)

\* C5 as stated: if the modal is opened and stays open and the pending timers
\* fire, isComplete eventually becomes true, after exactly totalSteps timer
\* firings, and from then on no timer is scheduled while the modal stays open.
C5_Original ==
    /\ (isOpen /\ ~isComplete) ~> (isComplete \/ ~isOpen)
    /\ []((isOpen /\ isComplete) => firedSinceOpen = totalSteps(processType))
    /\ []((isOpen /\ isComplete) => timers = {})

\* C5 amended: if the modal is opened and stays open, handleClose does not run
\* and processType does not change, and the pending timers fire, isComplete
\* eventually becomes true, after exactly totalSteps timer firings since the
\* modal was opened or handleClose last ran, and from then on no timer is
\* scheduled while the modal stays open.
C5_EventuallyComplete ==
    /\ (isOpen /\ ~isComplete)
          ~> (isComplete \/ ~isOpen \/ lastEvent \in {"handleClose", "processType"})
    /\ []((isOpen /\ isComplete) => fired = totalSteps(processType))
    /\ []((isOpen /\ isComplete) => timers = {})

C5_Witness ==
    /\ isOpen /\ isComplete /\ Settled /\ timers = {}
    /\ fired = totalSteps(processType) /\ firedSinceOpen = totalSteps(processType)

\* C6: handleClose, called in any state, sets (currentStep, isComplete) to
\* (0, false) and invokes the onClose callback exactly once.
C6_handleCloseResets ==
    lastEvent = "handleClose"
        => (currentStep = 0 /\ isComplete = FALSE /\ onCloseCalls = 1)

C6_Witness ==
    /\ lastEvent = "handleClose" /\ isOpen /\ onCloseCalls = 1
    /\ firedSinceOpen = totalSteps(processType) /\ currentStep = 0

\* C7: after any number of fired timers closing the modal resets the state to
\* (0, false), at every change of isOpen from false to true the state is
\* (0, false), and a reopened modal is complete only after totalSteps further
\* timer firings.
C7_ReopenRestarts ==
    /\ []((~isOpen /\ Settled) => (currentStep = 0 /\ isComplete = FALSE))
    /\ [][(~isOpen /\ isOpen') => (currentStep' = 0 /\ isComplete' = FALSE)]_vars
    /\ []((isOpen /\ fired < totalSteps(processType)) => ~isComplete)

C7_Witness ==
    /\ isOpen /\ isComplete /\ closedAfter = 2
    /\ fired = totalSteps(processType) /\ firedSinceOpen = totalSteps(processType)

\* C8 as stated: with processType "cleanup" the sequence has 6 steps: after 6
\* timer firings isComplete is true and the result shown is "1.2 GB" /
\* "de espaço liberado", and isComplete is not true after fewer than 6 firings.
C8_Original ==
    (isOpen /\ processType = "cleanup")
        => /\ fired < 6 => ~isComplete
           /\ (fired = 6 /\ Settled)
                 => /\ isComplete
                    /\ CompletePanel(isComplete, processType)
                         = << "1.2 GB", "de espaço liberado" >>

\* C8 amended: with processType "cleanup" the sequence has 5 steps: after 5
\* timer firings isComplete is true and the result shown is "1.2 GB" /
\* "de espaço liberado", and isComplete is not true after fewer than 5 firings.
C8_CleanupCompletes ==
    (isOpen /\ processType = "cleanup")
        => /\ totalSteps(processType) = 5
           /\ fired < 5 => ~isComplete
           /\ (fired = 5 /\ Settled)
                 => /\ isComplete
                    /\ CompletePanel(isComplete, processType)
                         = << "1.2 GB", "de espaço liberado" >>

C8_Witness ==
    /\ isOpen /\ processType = "cleanup" /\ fired = 5 /\ isComplete
    /\ CompletePanel(isComplete, processType) = << "1.2 GB", "de espaço liberado" >>

\* progress is isComplete ? 100 : currentStep / totalSteps * 100
ProgressAsSpecified ==
    IF isComplete THEN progress = 100
    ELSE progress * totalSteps(processType) = currentStep * 100

\* C9 as stated: progress is 100 when isComplete and currentStep / totalSteps
\* * 100 otherwise, it is within 0..100, and while the modal stays open it
\* never decreases from one state to the next.
C9_Original ==
    /\ [](ProgressAsSpecified /\ progress \in 0..100)
    /\ [][(isOpen /\ isOpen') => progress' >= progress]_vars

\* C9 amended: progress is 100 when isComplete and currentStep / totalSteps
\* * 100 otherwise, it is within 0..100, and while the modal stays open it
\* never decreases from one state to the next unless handleClose runs.
C9_ProgressMonotone ==
    /\ [](ProgressAsSpecified /\ progress \in 0..100)
    /\ [][(isOpen /\ isOpen' /\ lastEvent' # "handleClose")
            => progress' >= progress]_vars

C9_Witness ==
    /\ isOpen /\ ~isComplete /\ currentStep = 3 /\ progress = 60

\* C10 as stated: while the modal is open currentStep never decreases from
\* one state to the next, whatever event occurs.
C10_Original ==
    [][(isOpen /\ isOpen') => currentStep' >= currentStep]_vars

\* C10 amended: while the modal is open currentStep never decreases from one
\* state to the next on a timer firing or a processType change; handleClose
\* sets it to 0 even when the caller keeps the modal open.
C10_StepMonotone ==
    /\ [][(isOpen /\ isOpen' /\ lastEvent' # "handleClose")
            => currentStep' >= currentStep]_vars
    /\ [](lastEvent = "handleClose" => currentStep = 0)

C10_Witness ==
    /\ isOpen /\ lastEvent = "processType" /\ currentStep = 3

\* C11: in every reachable state at most one timer is pending, and a timer is
\* scheduled only when every timer that was pending before has fired or is
\* cancelled in the same run of the effect.
C11_OneTimer ==
    /\ [](Cardinality(timers) <= 1)
    /\ [][(lastEvent' = "effect" /\ scheduled' # {})
            => (timers \ cancelled' = {} /\ timers' = scheduled')]_vars

C11_Witness ==
    /\ lastEvent = "effect" /\ fired = 1 /\ cancelled = {}
    /\ Cardinality(scheduled) = 1 /\ timers = scheduled

C13_Original ==
    [][(isOpen /\ isOpen') => cancelled' = {}]_vars

\* C13 amended: while isOpen stays true a pending timer is removed only by
\* firing or by the effect that runs after a processType change or after
\* handleClose, which cancels it and schedules the timer of the current step
\* in its place; the sequence cannot be stopped without closing the modal.
C13_CancelOnlyToReschedule ==
    /\ [][(isOpen /\ isOpen' /\ timers \ timers' # {})
            => \/ TimerFired
               \/ /\ lastEvent \in {"handleClose", "processType"}
                  /\ lastEvent' = "effect"
                  /\ cancelled' = timers
                  /\ Cardinality(scheduled') = 1
                  /\ timers' = scheduled']_vars
    /\ [][(isOpen /\ isOpen' /\ cancelled' # {} /\ lastEvent' = "effect")
            => (Cardinality(scheduled') = 1
                /\ lastEvent \in {"handleClose", "processType"})]_vars
    /\ []((isOpen /\ Settled /\ currentStep < totalSteps(processType))
            => Cardinality(timers) = 1)

C13_Witness ==
    /\ isOpen /\ lastEvent = "effect" /\ currentStep = 0
    /\ \E t \in cancelled : t.step = 3
    /\ \E t \in scheduled : t.step = 0

\* C14: timer firings and the effect (completion included) change nothing
\* but currentStep, isComplete and the timers: they leave the props alone and
\* never invoke onClose, which only handleClose invokes.
C14_OnlyCloseNotifies ==
    /\ [](onCloseCalls > 0 => lastEvent = "handleClose")
    /\ [][lastEvent' \in {"timer", "effect"}
            => (onCloseCalls' = 0 /\ isOpen' = isOpen /\ processType' = processType)]_vars

C14_Witness ==
    /\ isOpen /\ isComplete /\ lastEvent = "effect" /\ onCloseCalls = 0
    /\ fired = totalSteps(processType) /\ cancelled = {} /\ scheduled = {}

\* C15: a change of processType while the modal is open keeps currentStep and
\* isComplete; the effect that follows cancels the pending timer and schedules
\* one for the same step with the duration the new processType gives that
\* step, and a complete session stays complete and shows the new type's result.
C15_TypeChangeKeepsSession ==
    /\ [][(lastEvent' = "processType" /\ processType' # processType)
            => (currentStep' = currentStep /\ isComplete' = isComplete
                /\ timers' = timers)]_vars
    /\ [][(lastEvent = "processType" /\ lastEvent' = "effect" /\ isOpen)
            => /\ currentStep' = currentStep
               /\ isComplete' = isComplete
               /\ cancelled' = timers
               /\ timers' = scheduled'
               /\ scheduled' =
                    IF currentStep < totalSteps(processType)
                    THEN { [step |-> currentStep,
                            delay |-> processConfigs[processType].steps[currentStep + 1].duration] }
                    ELSE {}]_vars
    /\ []((lastEvent = "processType" /\ isOpen /\ isComplete)
            => CompletePanel(isComplete, processType)
                 = << resultStats[processType].value, resultStats[processType].label >>)

C15_Witness ==
    /\ isOpen /\ lastEvent = "effect" /\ currentStep = 1
    /\ \E t \in cancelled : \E u \in scheduled : t.step = u.step /\ t.delay # u.delay

C17_NotificationCloses ==
    openChange # "none"
        => (lastEvent = "handleClose" /\ currentStep = 0 /\ isComplete = FALSE
            /\ onCloseCalls = 1)

C17_Witness ==
    /\ openChange = "true" /\ isOpen /\ firedSinceOpen = 3
    /\ currentStep = 0 /\ isComplete = FALSE /\ onCloseCalls = 1

\* C18: the current-step panel and the completion panel are never shown
\* together; when the modal is open and currentStep < totalSteps the step
\* panel shows the label of steps[currentStep] and "Etapa currentStep+1 de
\* totalSteps"; the completion panel and the "Concluído" button are shown
\* exactly when isComplete is true.
C18_PanelsExclusive ==
    /\ ~(StepPanel(isComplete, currentStep, processType) # << >>
         /\ CompletePanel(isComplete, processType) # << >>)
    /\ (isOpen /\ currentStep < totalSteps(processType))
          => StepPanel(isComplete, currentStep, processType)
               = << processConfigs[processType].steps[currentStep + 1].label,
                    "Etapa", currentStep + 1, "de", totalSteps(processType) >>
    /\ (CompletePanel(isComplete, processType) # << >>) <=> isComplete
    /\ (FooterButton(isComplete) = "Concluído") <=> isComplete

C18_Witness ==
    /\ isOpen /\ processType = "screenshots" /\ currentStep = 2
    /\ StepPanel(isComplete, currentStep, processType)
         = << "Criando pastas por app", "Etapa", 3, "de", 5 >>
    /\ FooterButton(isComplete) = "Cancelar"

\* C19: whenever a timer is scheduled or the step label is shown, currentStep
\* is an index of the step list of the current processType, so the delay of
\* the timer is steps[currentStep].duration, which is not 0, and the
\* fallback delay is not used.
C19_ValidStepIndex ==
    /\ lastEvent = "effect"
         => \A t \in scheduled :
               /\ t.step = currentStep
               /\ t.step \in 0..(totalSteps(processType) - 1)
               /\ processConfigs[processType].steps[t.step + 1].duration # 0
               /\ t.delay = processConfigs[processType].steps[t.step + 1].duration
    /\ (isOpen /\ StepPanel(isComplete, currentStep, processType) # << >>)
          => currentStep \in 0..(totalSteps(processType) - 1)

C19_Witness ==
    /\ lastEvent = "effect" /\ processType = "screenshots" /\ isOpen
    /\ scheduled = { [step |-> 4, delay |-> 800] }
    /\ StepPanel(isComplete, currentStep, processType) # << >>

====
